---------------------------- MODULE Spec2Model ----------------------------
(***************************************************************************)
(* A model of shu-2al, an SRT subtitle cleaner: the Timestamp value type,  *)
(* the Subtitle entry, the SRT document (read_file / write_file) and main. *)
(*                                                                         *)
(* Text is a sequence of Unicode code points.  The program's integers      *)
(* (u32, u64, i64, u128) exceed the range of TLC's integers, so every      *)
(* number the program computes is a "Big": a little-endian sequence of     *)
(* base-1000 limbs without leading zero limbs (zero is <<>>).              *)
(***************************************************************************)
EXTENDS Integers, Sequences, FiniteSets, TLC

VARIABLES
    overflow_checks, \* build profile: TRUE = debug (overflow panics), FALSE = release (wraps)
    pc,              \* position of the client that drives the library
    argc,            \* main: args.len()
    input,           \* the lines the reader has yielded so far, as read (untrimmed)
    lines,           \* read_file: the line buffer `lines`
    subtitles,       \* SRT.subtitles
    read_result,     \* result of read_file: "none" | "Ok" | "Err"
    io_failed,       \* whether File::open or a line read reported an I/O error
    out,             \* the bytes write_file handed to the writer, as code points
    created,         \* whether File::create made the output file
    write_result,    \* result of write_file: "none" | "Ok" | "Err"
    flush_failed,    \* whether the BufWriter's flush on drop failed (the error is dropped)
    write_calls,     \* number of calls of write_file
    log,             \* main: the events reported through tracing / eprintln
    ts,              \* Timestamp under test (timestamp-level specification)
    other,           \* a second Timestamp, for comparisons
    sub,             \* Subtitle under test (subtitle-level specification)
    origin,          \* how ts was last produced
    last,            \* the last library call and what it returned
    n_calls          \* number of calls so far that assigned ts, sub or an entry

vars == <<overflow_checks, pc, argc, input, lines, subtitles, read_result, io_failed,
          out, created, write_result, flush_failed, write_calls, log, ts, other, sub,
          origin, last, n_calls>>

(***************************************************************************)
(* Big numbers                                                             *)
(***************************************************************************)
Max(a, b) == IF a >= b THEN a ELSE b

RECURSIVE BigOf(_)
BigOf(n) == IF n = 0 THEN <<>> ELSE <<n % 1000>> \o BigOf(n \div 1000)

RECURSIVE BigTrim(_)
BigTrim(a) ==
    IF a # <<>> /\ a[Len(a)] = 0 THEN BigTrim(SubSeq(a, 1, Len(a) - 1)) ELSE a

Limb(a, i) == IF i <= Len(a) THEN a[i] ELSE 0

RECURSIVE BigCmpAt(_, _, _)
BigCmpAt(a, b, i) ==
    IF i = 0 THEN 0
    ELSE IF Limb(a, i) < Limb(b, i) THEN -1
    ELSE IF Limb(a, i) > Limb(b, i) THEN 1
    ELSE BigCmpAt(a, b, i - 1)

BigCmp(a, b) == BigCmpAt(a, b, Max(Len(a), Len(b)))
BigLt(a, b) == BigCmp(a, b) = -1
BigLe(a, b) == BigCmp(a, b) # 1

RECURSIVE BigAddAt(_, _, _, _)
BigAddAt(a, b, i, carry) ==
    IF i > Len(a) /\ i > Len(b)
    THEN (IF carry = 0 THEN <<>> ELSE <<carry>>)
    ELSE LET s == Limb(a, i) + Limb(b, i) + carry
         IN  <<s % 1000>> \o BigAddAt(a, b, i + 1, s \div 1000)

BigAdd(a, b) == BigAddAt(a, b, 1, 0)

\* a - b for a >= b
RECURSIVE BigSubAt(_, _, _, _)
BigSubAt(a, b, i, borrow) ==
    IF i > Len(a) THEN <<>>
    ELSE LET d == a[i] - Limb(b, i) - borrow
         IN  IF d < 0 THEN <<d + 1000>> \o BigSubAt(a, b, i + 1, 1)
                      ELSE <<d>> \o BigSubAt(a, b, i + 1, 0)

BigSub(a, b) == BigTrim(BigSubAt(a, b, 1, 0))

\* a * k for a small k (k < 2,000,000)
RECURSIVE BigMulAt(_, _, _, _)
BigMulAt(a, k, i, carry) ==
    IF i > Len(a) THEN BigOf(carry)
    ELSE LET p == a[i] * k + carry
         IN  <<p % 1000>> \o BigMulAt(a, k, i + 1, p \div 1000)

BigMul(a, k) == BigTrim(BigMulAt(a, k, 1, 0))

\* long division of a by a small k (k < 2,000,000), from the top limb down:
\* <<quotient limbs, remainder>>
RECURSIVE BigDivAt(_, _, _, _)
BigDivAt(a, k, i, rem) ==
    IF i = 0 THEN <<<<>>, rem>>
    ELSE LET cur  == rem * 1000 + a[i]
             rest == BigDivAt(a, k, i - 1, cur % k)
         IN  <<rest[1] \o <<cur \div k>>, rest[2]>>

BigDiv(a, k) == BigTrim(BigDivAt(a, k, Len(a), 0)[1])
BigRem(a, k) == BigOf(BigDivAt(a, k, Len(a), 0)[2])

\* 2^32: one more than u32::MAX
U32Mod == <<296, 967, 294, 4>>
\* i64::MAX = 9,223,372,036,854,775,807
I64Max == <<807, 775, 854, 36, 372, 223, 9>>
\* 2^64: one more than u64::MAX
U64Mod == <<616, 551, 709, 73, 744, 446, 18>>

\* x mod 2^32, the value an `as u32` cast or a wrapping u32 operation keeps
\* (2^32 = 65536 * 65536, and the small-divisor division takes one factor at a time)
WrapU32(x) == BigSub(x, BigMul(BigMul(BigDiv(BigDiv(x, 65536), 65536), 65536), 65536))

(***************************************************************************)
(* Text                                                                    *)
(***************************************************************************)
SetMin(S) == CHOOSE x \in S : \A y \in S : x <= y

\* str::find: the first index at which pat occurs in s, 0 if none (pat non-empty)
Find(s, pat) ==
    LET I == {i \in 1..(Len(s) - Len(pat) + 1) : SubSeq(s, i, i + Len(pat) - 1) = pat}
    IN  IF I = {} THEN 0 ELSE SetMin(I)

\* str::contains
Contains(s, pat) == \E i \in 1..(Len(s) - Len(pat) + 1) : SubSeq(s, i, i + Len(pat) - 1) = pat

\* str::split(pat).collect()
RECURSIVE Split(_, _)
Split(s, pat) ==
    LET i == Find(s, pat)
    IN  IF i = 0 THEN <<s>>
        ELSE <<SubSeq(s, 1, i - 1)>> \o Split(SubSeq(s, i + Len(pat), Len(s)), pat)

\* char::is_whitespace: the code points with the White_Space property
WhiteSpace ==
    (9..13) \cup {32, 133, 160, 5760} \cup (8192..8202) \cup {8232, 8233, 8239, 8287, 12288}

\* str::trim
Trim(s) ==
    LET I == {i \in 1..Len(s) : s[i] \notin WhiteSpace}
    IN  IF I = {} THEN <<>>
        ELSE SubSeq(s, SetMin(I), CHOOSE j \in I : \A k \in I : k <= j)

\* char::is_ascii_punctuation
IsAsciiPunctuation(c) == c \in (33..47) \cup (58..64) \cup (91..96) \cup (123..126)

\* Result<T, String>
Ok(v) == [ok |-> TRUE, val |-> v, err |-> ""]
Err(msg) == [ok |-> FALSE, val |-> <<>>, err |-> msg]

RECURSIVE DigitsToBig(_)
DigitsToBig(d) ==
    IF d = <<>> THEN <<>>
    ELSE BigAdd(BigMul(DigitsToBig(SubSeq(d, 1, Len(d) - 1)), 10), BigOf(d[Len(d)] - 48))

\* str::parse::<u32>: an optional '+', then one or more ASCII digits, value below 2^32
ParseU32(s) ==
    LET body == IF s # <<>> /\ s[1] = 43 THEN Tail(s) ELSE s
    IN  IF body = <<>> \/ \E i \in 1..Len(body) : body[i] \notin 48..57
        THEN Err("invalid digit found in string")
        ELSE LET v == DigitsToBig(body)
             IN  IF BigLt(v, U32Mod) THEN Ok(v) ELSE Err("number too large to fit in target type")

\* the decimal digits of n, 0 <= n < 1000, at least `width` of them
RECURSIVE NatDigits(_, _)
NatDigits(n, width) ==
    IF n < 10 /\ width <= 1 THEN <<48 + n>>
    ELSE NatDigits(n \div 10, width - 1) \o <<48 + (n % 10)>>

RECURSIVE LowLimbDigits(_, _)
LowLimbDigits(a, i) ==
    IF i = 0 THEN <<>> ELSE NatDigits(a[i], 3) \o LowLimbDigits(a, i - 1)

\* Display of an unsigned integer with a minimum width, zero padded: "{:0width$}"
FmtPadded(a, width) ==
    IF a = <<>> THEN NatDigits(0, width)
    ELSE LET low == LowLimbDigits(a, Len(a) - 1)
         IN  NatDigits(a[Len(a)], Max(width - Len(low), 1)) \o low

(***************************************************************************)
(* Timestamp (src/srt/timestamp.rs)                                        *)
(***************************************************************************)
Timestamp(h, m, s, ms) == [hours |-> h, minutes |-> m, seconds |-> s, milliseconds |-> ms]

\* Timestamp::from_string
from_string(timestamp_str) ==
    LET parts == Split(timestamp_str, <<58>>)              \* split(':')
    IN  IF Len(parts) # 3 THEN Err("Invalid timestamp format")
        ELSE LET hours         == ParseU32(parts[1])
                 minutes       == ParseU32(parts[2])
                 seconds_parts == Split(parts[3], <<44>>)  \* split(',')
             IN  IF ~hours.ok THEN Err("Invalid hours")
                 ELSE IF ~minutes.ok THEN Err("Invalid minutes")
                 ELSE IF Len(seconds_parts) # 2 THEN Err("Invalid seconds format")
                 ELSE LET seconds      == ParseU32(seconds_parts[1])
                          milliseconds == ParseU32(seconds_parts[2])
                      IN  IF ~seconds.ok THEN Err("Invalid seconds")
                          ELSE IF ~milliseconds.ok THEN Err("Invalid milliseconds")
                          ELSE Ok(Timestamp(hours.val, minutes.val, seconds.val,
                                            milliseconds.val))

\* the value of to_millis' expression hours * 3600 + minutes * 60 + seconds, times 1000,
\* plus milliseconds, as an integer of unbounded width
total_milliseconds(self) ==
    LET total_seconds ==
            BigAdd(BigAdd(BigMul(self.hours, 3600), BigMul(self.minutes, 60)), self.seconds)
    IN  BigAdd(BigMul(total_seconds, 1000), self.milliseconds)

\* Timestamp::to_millis: u32 arithmetic, the result widened to u64 at the end.
\* Every operand is non-negative, so each intermediate result is at most the exact
\* total: one of the five operations overflows exactly when the exact total does not
\* fit in a u32.  With overflow checks that operation panics; without, every
\* operation wraps and the result is the exact total modulo 2^32.
to_millis(self) ==
    [panic |-> overflow_checks /\ ~BigLt(total_milliseconds(self), U32Mod),
     val   |-> WrapU32(total_milliseconds(self))]

\* Timestamp::from_millis (millis: u64); every `as u32` truncates
from_millis(millis) ==
    LET total_seconds == BigDiv(millis, 1000)
        milliseconds  == BigRem(millis, 1000)        \* below 1000: the cast keeps it
        seconds       == BigRem(total_seconds, 60)
        total_minutes == BigDiv(total_seconds, 60)
        minutes       == BigRem(total_minutes, 60)
        hours         == WrapU32(BigDiv(total_minutes, 60))
    IN  Timestamp(hours, minutes, seconds, milliseconds)

\* i64 addition of a non-negative a and a signed d = [neg, mag]:
\* the exact sum when it fits, else ovf and the wrapped (negative) sum
I64Add(a, d) ==
    IF d.neg
    THEN IF BigLt(a, d.mag) THEN [neg |-> TRUE, mag |-> BigSub(d.mag, a), ovf |-> FALSE]
                            ELSE [neg |-> FALSE, mag |-> BigSub(a, d.mag), ovf |-> FALSE]
    ELSE LET s == BigAdd(a, d.mag)
         IN  IF BigLe(s, I64Max) THEN [neg |-> FALSE, mag |-> s, ovf |-> FALSE]
             ELSE [neg |-> TRUE, mag |-> BigSub(U64Mod, s), ovf |-> TRUE]

\* Timestamp::move_ts; delta is Duration::as_millis (u128).
\* status is "Ok", "Err" or "panic" (the thread unwinds and self is not assigned)
move_ts(self, delta, direction) ==
    LET tm == to_millis(self)
    IN  IF tm.panic THEN [status |-> "panic", self |-> self, err |-> ""]
        \* `total_milliseconds < 0` cannot hold: a u32 value cast to i64
        ELSE IF BigLt(I64Max, delta)
        THEN [status |-> "Err", self |-> self, err |-> "Duration is too large"]
        ELSE LET signed == [neg |-> direction = "Backward", mag |-> delta]
                 sum    == I64Add(tm.val, signed)
                 new_timestamp == IF sum.neg THEN <<>> ELSE sum.mag   \* max(.., 0)
             IN  IF sum.ovf /\ overflow_checks
                 THEN [status |-> "panic", self |-> self, err |-> ""]
                 ELSE [status |-> "Ok", self |-> from_millis(new_timestamp), err |-> ""]

\* Display for Timestamp: "{:02}:{:02}:{:02},{:03}"
Timestamp_fmt(self) ==
    FmtPadded(self.hours, 2) \o <<58>> \o FmtPadded(self.minutes, 2) \o <<58>>
        \o FmtPadded(self.seconds, 2) \o <<44>> \o FmtPadded(self.milliseconds, 3)

\* Ord for Timestamp: "Less" | "Equal" | "Greater"
Ordering(c) == IF c = -1 THEN "Less" ELSE IF c = 0 THEN "Equal" ELSE "Greater"

cmp(self, oth) ==
    IF self.hours # oth.hours THEN Ordering(BigCmp(self.hours, oth.hours))
    ELSE IF self.minutes # oth.minutes THEN Ordering(BigCmp(self.minutes, oth.minutes))
    ELSE IF self.seconds # oth.seconds THEN Ordering(BigCmp(self.seconds, oth.seconds))
    ELSE Ordering(BigCmp(self.milliseconds, oth.milliseconds))

(***************************************************************************)
(* Subtitle (src/srt/subtitle.rs)                                          *)
(***************************************************************************)
WORDS_LIST == {
    <<1588, 1578, 1585, 1603, 1608, 1575, 32, 1601, 1610, 32, 1575, 1604, 1602, 1606,
      1575, 1577>>,
    <<1604, 1575, 32, 1578, 1606, 1587, 1608, 1575, 32, 1575, 1604, 1575, 1588, 1578,
      1585, 1575, 1603, 32, 1601, 1610, 32, 1575, 1604, 1602, 1606, 1575, 1577>>,
    <<1604, 1575, 32, 1578, 1606, 1587, 1608, 1575, 32, 1575, 1604, 1575, 1588, 1578,
      1585, 1575, 1603>>,
    <<1575, 1604, 1605, 1578, 1585, 1580, 1605, 32, 1604, 1604, 1602, 1606, 1575, 1577>>,
    <<1605, 1608, 1587, 1610, 1602, 1609>>,
    <<112, 97, 116, 99, 104>> }                            \* "patch"

Arrow == <<45, 45, 62>>                                    \* "-->"
ArrowSep == <<32, 45, 45, 62, 32>>                         \* " --> "

\* is_valid without the denylist
is_valid_no_denylist(self) ==
    /\ self.text # <<>>
    /\ ~ \A i \in 1..Len(self.text) : IsAsciiPunctuation(self.text[i])

\* Subtitle::is_valid
is_valid(self) ==
    /\ self.text # <<>>
    /\ ~ \E word \in WORDS_LIST : Contains(self.text, word)
    /\ ~ \A i \in 1..Len(self.text) : IsAsciiPunctuation(self.text[i])

\* Subtitle::new; ts_i is the 1-based index of the first line that contains "-->"
Subtitle_new(block) ==
    LET I == {i \in 1..Len(block) : Contains(block[i], Arrow)}
    IN  IF I = {} THEN Err("No timestamp found")
        ELSE LET ts_i == SetMin(I)
             IN  IF ts_i >= Len(block) THEN Err("No text provided")
                 ELSE LET halves == Split(block[ts_i], ArrowSep)
                      IN  IF Len(halves) < 2 THEN Err("Invalid end timestamp")
                          ELSE LET start_time == from_string(halves[1])
                                   end_time   == from_string(halves[2])
                                   subtitle   == [start_time |-> start_time.val,
                                                  end_time   |-> end_time.val,
                                                  text       |-> Trim(block[ts_i + 1])]
                               IN  IF ~start_time.ok THEN Err(start_time.err)
                                   ELSE IF ~end_time.ok THEN Err(end_time.err)
                                   ELSE IF ~is_valid(subtitle) THEN Err("Invalid subtitle")
                                   ELSE Ok(subtitle)

\* Subtitle::to_string
Subtitle_to_string(self) ==
    Timestamp_fmt(self.start_time) \o ArrowSep \o Timestamp_fmt(self.end_time) \o <<10>>
        \o self.text \o <<10>>

\* Subtitle::duration: a u64 subtraction, which panics or wraps below zero
duration(self) ==
    LET start_time == to_millis(self.start_time)
        end_time   == to_millis(self.end_time)
        under      == BigLt(end_time.val, start_time.val)
    IN  [panic |-> start_time.panic \/ end_time.panic \/ (under /\ overflow_checks),
         val   |-> IF under THEN BigSub(BigAdd(end_time.val, U64Mod), start_time.val)
                            ELSE BigSub(end_time.val, start_time.val)]

\* move_start that shifts both timestamps
move_start_both(self, delta, direction) ==
    LET r == move_ts(self.start_time, delta, direction)
    IN  [status |-> r.status, err |-> r.err,
         self   |-> [self EXCEPT !.start_time = r.self,
                                 !.end_time = move_ts(self.end_time, delta, direction).self]]

\* Subtitle::move_start
move_start(self, delta, direction) ==
    LET r == move_ts(self.start_time, delta, direction)
    IN  [status |-> r.status, err |-> r.err,
         self   |-> [self EXCEPT !.start_time = r.self]]

(***************************************************************************)
(* SRT (src/srt/srt.rs)                                                    *)
(***************************************************************************)
\* read_line without the lines.clear() that follows the push of an entry
read_line_no_clear(buf, subs, raw) ==
    LET line == Trim(raw)
    IN  IF line = <<>> THEN [lines |-> <<>>, subtitles |-> subs, err |-> FALSE]
        ELSE LET pushed == Append(buf, line)
                 r      == Subtitle_new(pushed)
             IN  IF Len(pushed) > 1 /\ r.ok
                 THEN [lines |-> pushed, subtitles |-> Append(subs, r.val), err |-> FALSE]
                 ELSE [lines |-> pushed, subtitles |-> subs, err |-> FALSE]

\* read_line with `Subtitle::new(..)?` in place of `if let Ok(..)`
read_line_propagate(buf, subs, raw) ==
    LET line == Trim(raw)
    IN  IF line = <<>> THEN [lines |-> <<>>, subtitles |-> subs, err |-> FALSE]
        ELSE LET pushed == Append(buf, line)
                 r      == Subtitle_new(pushed)
             IN  IF Len(pushed) > 1 /\ r.ok
                 THEN [lines |-> <<>>, subtitles |-> Append(subs, r.val), err |-> FALSE]
                 ELSE [lines |-> pushed, subtitles |-> subs, err |-> Len(pushed) > 1]

\* read_line with a blank line that is skipped without lines.clear()
read_line_keep_on_blank(buf, subs, raw) ==
    LET line == Trim(raw)
    IN  IF line = <<>> THEN [lines |-> buf, subtitles |-> subs, err |-> FALSE]
        ELSE LET pushed == Append(buf, line)
                 r      == Subtitle_new(pushed)
             IN  IF Len(pushed) > 1 /\ r.ok
                 THEN [lines |-> <<>>, subtitles |-> Append(subs, r.val), err |-> FALSE]
                 ELSE [lines |-> pushed, subtitles |-> subs, err |-> FALSE]

\* the body of read_file's loop for one line that was read without error:
\* the new line buffer and the new entry sequence
read_line(buf, subs, raw) ==
    LET line == Trim(raw)
    IN  IF line = <<>> THEN [lines |-> <<>>, subtitles |-> subs, err |-> FALSE]
        ELSE LET pushed == Append(buf, line)
                 r      == Subtitle_new(pushed)
             IN  IF Len(pushed) > 1 /\ r.ok
                 THEN [lines |-> <<>>, subtitles |-> Append(subs, r.val), err |-> FALSE]
                 ELSE [lines |-> pushed, subtitles |-> subs, err |-> FALSE]

\* the two writeln! calls of write_file for the entry at position i (1-based):
\* writeln!(writer, "{}", i + 1) with the 0-based i, then the entry's to_string
index_chunk_zero_based(i) == FmtPadded(BigOf(i - 1), 1) \o <<10>>

index_chunk(i) == FmtPadded(BigOf(i), 1) \o <<10>>

\* the second writeln! as a write! that adds no line end after the entry's to_string
entry_chunk_no_newline(subs, i) == Subtitle_to_string(subs[i])

entry_chunk(subs, i) == Subtitle_to_string(subs[i]) \o <<10>>

\* what the first j writeln! calls of write_file hand to the writer
RECURSIVE written(_, _)
written(subs, j) ==
    IF j = 0 THEN <<>>
    ELSE written(subs, j - 1)
         \o (IF j % 2 = 1 THEN index_chunk((j + 1) \div 2) ELSE entry_chunk(subs, j \div 2))

(***************************************************************************)
(* Inputs                                                                  *)
(***************************************************************************)
MaxLines == 4       \* lines the reader yields before the end of the input
MaxCalls == 2       \* calls that assign one timestamp or subtitle
MaxEntryMoves == 1  \* move_start calls on the entries of one document

L_blank  == <<>>
L_index  == <<53>>                                         \* "5"
\* "00:00:01,000 --> 00:00:05,000"
L_range1 == <<48, 48, 58, 48, 48, 58, 48, 49, 44, 48, 48, 48, 32, 45, 45, 62, 32,
              48, 48, 58, 48, 48, 58, 48, 53, 44, 48, 48, 48>>
\* "0:75:0,5 --> 0:0:8,0"
L_range2 == <<48, 58, 55, 53, 58, 48, 44, 53, 32, 45, 45, 62, 32, 48, 58, 48, 58, 56, 44, 48>>
\* "0:0:1,0 --> 0:0:x,0"
L_badrange == <<48, 58, 48, 58, 49, 44, 48, 32, 45, 45, 62, 32, 48, 58, 48, 58, 120, 44, 48>>
L_text   == <<32, 72, 105>>                                \* " Hi"
L_patch  == <<112, 97, 116, 99, 104, 121>>                 \* "patchy"

InputLines == {L_blank, L_index, L_range1, L_range2, L_badrange, L_text, L_patch}

\* args.len(): the program name alone, one argument, both arguments
ArgCounts == {1, 2, 3}

(***************************************************************************)
(* The program: main (src/main.rs) driving SRT::new, read_file, write_file *)
(***************************************************************************)
Idle ==
    /\ ts = Timestamp(<<>>, <<>>, <<>>, <<>>)
    /\ other = Timestamp(<<>>, <<>>, <<>>, <<>>)
    /\ sub = [start_time |-> Timestamp(<<>>, <<>>, <<>>, <<>>),
              end_time |-> Timestamp(<<>>, <<>>, <<>>, <<>>), text |-> <<>>]
    /\ origin = [kind |-> "none"]
    /\ last = [op |-> "none"]
    /\ n_calls = 0

NoDocument ==
    /\ argc = 0
    /\ input = <<>>
    /\ lines = <<>>
    /\ subtitles = <<>>
    /\ read_result = "none"
    /\ io_failed = FALSE
    /\ out = <<>>
    /\ created = FALSE
    /\ write_result = "none"
    /\ flush_failed = FALSE
    /\ write_calls = 0
    /\ log = <<>>

Init ==
    /\ overflow_checks \in BOOLEAN
    /\ pc = "main"
    /\ argc \in ArgCounts
    /\ input = <<>>
    /\ lines = <<>>
    /\ subtitles = <<>>            \* SRT::new: Vec::new()
    /\ read_result = "none"
    /\ io_failed = FALSE
    /\ out = <<>>
    /\ created = FALSE
    /\ write_result = "none"
    /\ flush_failed = FALSE
    /\ write_calls = 0
    /\ log = <<>>
    /\ Idle

libvars == <<ts, other, sub, origin, last, n_calls>>
readvars == <<input, lines, subtitles, read_result, io_failed>>
writevars == <<out, created, write_result, flush_failed, write_calls>>

\* main: the argument check, then SRT::new
MainArgs ==
    /\ pc = "main"
    /\ IF argc < 3
       THEN pc' = "exit" /\ log' = Append(log, "usage")
       ELSE pc' = "open" /\ log' = log
    /\ UNCHANGED <<overflow_checks, argc, readvars, writevars, libvars>>

\* read_file: File::open succeeds
ReadOpen ==
    /\ pc = "open"
    /\ pc' = "reading"
    /\ UNCHANGED <<overflow_checks, argc, readvars, writevars, log, libvars>>

\* read_file: File::open fails, `?` returns the error
ReadOpenFail ==
    /\ pc = "open"
    /\ pc' = "read_returned"
    /\ read_result' = "Err"
    /\ io_failed' = TRUE
    /\ UNCHANGED <<overflow_checks, argc, input, lines, subtitles, writevars, log, libvars>>

\* read_file: one iteration of the loop over reader.lines()
ReadLine ==
    /\ pc = "reading"
    /\ Len(input) < MaxLines
    /\ \E raw \in InputLines :
         LET r == read_line(lines, subtitles, raw)
         IN  /\ input' = Append(input, raw)
             /\ lines' = r.lines
             /\ subtitles' = r.subtitles
             /\ IF r.err
                THEN pc' = "read_returned" /\ read_result' = "Err"
                ELSE pc' = pc /\ read_result' = read_result
    /\ UNCHANGED <<overflow_checks, argc, io_failed, writevars, log, libvars>>

\* read_file: the reader yields an I/O error, `?` returns it
ReadLineFail ==
    /\ pc = "reading"
    /\ pc' = "read_returned"
    /\ read_result' = "Err"
    /\ io_failed' = TRUE
    /\ lines' = <<>>
    /\ UNCHANGED <<overflow_checks, argc, input, subtitles, writevars, log, libvars>>

\* read_file: the reader is exhausted, Ok(()) is returned
ReadEof ==
    /\ pc = "reading"
    /\ pc' = "read_returned"
    /\ read_result' = "Ok"
    /\ lines' = <<>>
    /\ UNCHANGED <<overflow_checks, argc, input, subtitles, io_failed, writevars, log,
                   libvars>>

\* main: match srt.read_file()
MainAfterRead ==
    /\ pc = "read_returned"
    /\ IF read_result = "Ok"
       THEN pc' = "write" /\ log' = Append(log, "debug: File read successfully!")
       ELSE pc' = "exit" /\ log' = Append(log, "error: Error reading file")
    /\ UNCHANGED <<overflow_checks, argc, readvars, writevars, libvars>>

\* write_file: File::create fails
WriteCreateFail ==
    /\ pc = "write"
    /\ pc' = "write_returned"
    /\ write_calls' = write_calls + 1
    /\ write_result' = "Err"
    /\ UNCHANGED <<overflow_checks, argc, readvars, out, created, flush_failed, log, libvars>>

\* write_file: the file is created and writeln! number j + 1 fails (the writer's buffer
\* was full and its write to the file failed; a line stands for text of any length)
WriteLineFail ==
    /\ pc = "write"
    /\ \E j \in 0..(2 * Len(subtitles) - 1) :
         out' = written(subtitles, j)
    /\ pc' = "write_returned"
    /\ write_calls' = write_calls + 1
    /\ created' = TRUE
    /\ write_result' = "Err"
    /\ UNCHANGED <<overflow_checks, argc, readvars, flush_failed, log, libvars>>

\* write_file: every writeln! succeeds and Ok(()) is returned; the BufWriter is
\* dropped without a flush(), and drop discards the error of its own flush
WriteAll ==
    /\ pc = "write"
    /\ out' = written(subtitles, 2 * Len(subtitles))
    /\ pc' = "write_returned"
    /\ write_calls' = write_calls + 1
    /\ created' = TRUE
    /\ write_result' = "Ok"
    /\ flush_failed' \in (IF subtitles = <<>> THEN {FALSE} ELSE BOOLEAN)
    /\ UNCHANGED <<overflow_checks, argc, readvars, log, libvars>>

\* main: match srt.write_file(output_file)
MainAfterWrite ==
    /\ pc = "write_returned"
    /\ pc' = "exit"
    /\ log' = Append(log, IF write_result = "Ok" THEN "info: File written successfully!"
                                                ELSE "error: Error writing file")
    /\ UNCHANGED <<overflow_checks, argc, readvars, writevars, libvars>>

Next ==
    \/ MainArgs
    \/ ReadOpen
    \/ ReadOpenFail
    \/ ReadLine
    \/ ReadLineFail
    \/ ReadEof
    \/ MainAfterRead
    \/ WriteCreateFail
    \/ WriteLineFail
    \/ WriteAll
    \/ MainAfterWrite

Spec == Init /\ [][Next]_vars

(***************************************************************************)
(* The input as the specification describes it: blocks of non-blank lines  *)
(***************************************************************************)
Trimmed(inp) == [i \in 1..Len(inp) |-> Trim(inp[i])]

\* the maximal runs of non-blank lines of ls, in order
RECURSIVE Blocks(_)
Blocks(ls) ==
    IF ls = <<>> THEN <<>>
    ELSE IF ls[1] = <<>> THEN Blocks(Tail(ls))
    ELSE LET B == {i \in 1..Len(ls) : ls[i] = <<>>}
             n == IF B = {} THEN Len(ls) + 1 ELSE SetMin(B)
         IN  <<SubSeq(ls, 1, n - 1)>> \o Blocks(SubSeq(ls, n, Len(ls)))

\* a time-range line: two timestamps around " --> "
IsTimeRange(line) ==
    LET halves == Split(line, ArrowSep)
    IN  Len(halves) >= 2 /\ from_string(halves[1]).ok /\ from_string(halves[2]).ok

\* the text a Subtitle may hold
TextOk(text) ==
    /\ text # <<>>
    /\ \A word \in WORDS_LIST : ~Contains(text, word)
    /\ \E i \in 1..Len(text) : ~IsAsciiPunctuation(text[i])

\* the position of a block's time-range line when the block is well formed (index
\* lines without "-->", a time-range line, a text line, extra lines), else 0
RangeAt(block) ==
    LET I == {i \in 1..Len(block) : Contains(block[i], Arrow)}
    IN  IF I = {} THEN 0
        ELSE IF IsTimeRange(block[SetMin(I)]) /\ SetMin(I) < Len(block) THEN SetMin(I)
        ELSE 0

EntryAt(block, k) ==
    LET halves == Split(block[k], ArrowSep)
    IN  [start_time |-> from_string(halves[1]).val,
         end_time   |-> from_string(halves[2]).val,
         text       |-> block[k + 1]]

\* one entry per well-formed block with a valid text line, in file order
RECURSIVE EntriesOf(_)
EntriesOf(blocks) ==
    IF blocks = <<>> THEN <<>>
    ELSE LET b == blocks[1]
             k == RangeAt(b)
         IN  (IF k # 0 /\ TextOk(b[k + 1]) THEN <<EntryAt(b, k)>> ELSE <<>>)
             \o EntriesOf(Tail(blocks))

ExpectedEntries == EntriesOf(Blocks(Trimmed(input)))

\* no line after a block's text line contains "-->"
NoArrowInExtraLines(blocks) ==
    \A n \in 1..Len(blocks) :
        LET b == blocks[n]
            k == RangeAt(b)
        IN  k # 0 => \A j \in (k + 2)..Len(b) : ~Contains(b[j], Arrow)

ExtraLinesHaveNoArrow == NoArrowInExtraLines(Blocks(Trimmed(input)))

Pairs(T) == {k \in 1..(Len(T) - 1) : IsTimeRange(T[k]) /\ TextOk(T[k + 1])}

PairsInInput == Pairs(Trimmed(input))

\* C3: read_file returns an error only on an I/O failure; without one it returns Ok,
\* every entry comes from a time-range line followed by a valid text line (a
\* malformed block adds none), and a valid block that follows a blank line is parsed
\* whatever came before.
C3_OnlyIoErrors ==
    /\ read_result = "Err" => io_failed
    /\ (pc \in {"read_returned", "write", "write_returned", "exit"} /\ ~io_failed
            /\ argc >= 3)
           => read_result = "Ok"
    /\ pc \in {"reading", "read_returned"} =>
          LET T == Trimmed(input)
              P == Pairs(T)
              E == {EntryAt(T, k) : k \in P}
              AfterBlank == {EntryAt(T, k) : k \in {j \in P : j > 1 /\ T[j - 1] = <<>>}}
          IN  /\ \A i \in 1..Len(subtitles) : subtitles[i] \in E
              /\ Len(subtitles) <= Cardinality(P)
              /\ \A e \in AfterBlank : \E i \in 1..Len(subtitles) : subtitles[i] = e

\* a malformed block (an unparsable time range), a blank line, then a valid block
C3_Witness ==
    /\ pc = "read_returned"
    /\ read_result = "Ok"
    /\ Len(input) = 4
    /\ Contains(input[1], Arrow) /\ ~IsTimeRange(input[1])
    /\ input[2] = <<>>
    /\ 3 \in PairsInInput
    /\ Len(subtitles) = 1

\* the complete lines of the output, and its index lines: every fourth, from the first
OutLines == Split(out, <<10>>)
IndexLineCount == (Len(OutLines) + 2) \div 4
IndexLine(k) == OutLines[4 * (k - 1) + 1]

\* C4: the k-th index line write_file emits is k, and a write that returns Ok emits
\* exactly one index line per entry: 1, 2, ..., n.
C4_Renumbered ==
    (pc = "write_returned" /\ write_result # "none") =>
        LET lines_out == Split(out, <<10>>)
            n == (Len(lines_out) + 2) \div 4
        IN  /\ n <= Len(subtitles)
            /\ write_result = "Ok" => n = Len(subtitles)
            /\ \A k \in 1..n : ParseU32(lines_out[4 * (k - 1) + 1]) = Ok(BigOf(k))

\* two entries written: the indices are 1 and 2
C4_Witness ==
    /\ pc = "write_returned"
    /\ write_result = "Ok"
    /\ Len(subtitles) = 2
    /\ IndexLineCount = 2
    /\ ParseU32(IndexLine(2)) = Ok(BigOf(2))

\* an input that carried the index line "5" is written with the index 1
C4_WitnessIndexIgnored ==
    /\ write_result = "Ok"
    /\ \E i \in 1..Len(input) : input[i] = L_index
    /\ Len(subtitles) = 1
    /\ IndexLine(1) = <<49>>

\* render(): "{start} --> {end}\n{text}\n" in the canonical timestamp format
Render(entry) ==
    Timestamp_fmt(entry.start_time) \o ArrowSep \o Timestamp_fmt(entry.end_time) \o <<10>>
        \o entry.text \o <<10>>

\* "{i}\n{render()}" for the first n entries, concatenated
RECURSIVE SerializedAsStated(_, _)
SerializedAsStated(subs, n) ==
    IF n = 0 THEN <<>>
    ELSE SerializedAsStated(subs, n - 1) \o FmtPadded(BigOf(n), 1) \o <<10>> \o Render(subs[n])

\* "{i}\n{render()}\n" for the first n entries, concatenated
RECURSIVE Serialized(_, _)
Serialized(subs, n) ==
    IF n = 0 THEN <<>>
    ELSE Serialized(subs, n - 1) \o FmtPadded(BigOf(n), 1) \o <<10>> \o Render(subs[n])
             \o <<10>>

\* C11 as stated: the text a write_file that returns Ok has emitted is, for each entry in
\* order with 1-based position i, "{i}\n{start} --> {end}\n{text}\n", concatenated with
\* nothing added between or after.
C11_AsStated ==
    (pc = "write_returned" /\ write_result = "Ok")
        => out = SerializedAsStated(subtitles, Len(subtitles))

\* C11 (amended): the text a write_file that returns Ok has emitted is, for each entry
\* in order with 1-based position i, "{i}\n{start} --> {end}\n{text}\n" followed by one
\* more "\n" (a blank line after every entry, the last included), concatenated with
\* nothing else between or after.
C11_Serialized ==
    (pc = "write_returned" /\ write_result = "Ok")
        => out = Serialized(subtitles, Len(subtitles))

\* two entries written:
\* "1\n00:00:01,000 --> 00:00:05,000\nHi\n\n2\n00:75:00,005 --> 00:00:08,000\nHi\n\n"
C11_Witness ==
    /\ pc = "write_returned"
    /\ write_result = "Ok"
    /\ input = <<L_range1, L_text, L_range2, L_text>>
    /\ out =
          <<49, 10, 48, 48, 58, 48, 48, 58, 48, 49, 44, 48, 48, 48, 32, 45, 45, 62,
          32, 48, 48, 58, 48, 48, 58, 48, 53, 44, 48, 48, 48, 10, 72, 105, 10, 10>>
          \o
          <<50, 10, 48, 48, 58, 55, 53, 58, 48, 48, 44, 48, 48, 53, 32, 45, 45, 62,
          32, 48, 48, 58, 48, 48, 58, 48, 56, 44, 48, 48, 48, 10, 72, 105, 10, 10>>

\* the order of main: no write without a successful read, one write after it
C8_Ordering ==
    /\ read_result # "Ok" => (write_calls = 0 /\ ~created /\ out = <<>>)
    /\ write_calls <= 1
    /\ (pc = "exit" /\ read_result = "Ok") => write_calls = 1
    /\ write_result = "Err" => pc = "write_returned" \/ log[Len(log)] = "error: Error writing file"

\* C8: in a run with both arguments, a failed read calls no write and creates no
\* file; a successful read is followed by exactly one write; a write that failed is
\* reported; no write happens before the read has completed.
C8_AsStated ==
    /\ C8_Ordering
    /\ (pc = "exit" /\ (write_result = "Err" \/ flush_failed))
           => /\ log[Len(log)] = "error: Error writing file"
              /\ read_result = "Ok"

\* a write whose buffered output was lost, reported as written
C8_Witness ==
    /\ pc = "exit"
    /\ read_result = "Ok"
    /\ write_result = "Ok"
    /\ flush_failed
    /\ log[Len(log)] = "info: File written successfully!"

\* a step of read_file that meets a blank line
C10_BlankStep ==
    (/\ pc = "reading"
     /\ Len(input') = Len(input) + 1
     /\ Trim(input'[Len(input')]) = <<>>)
        => /\ lines' = <<>>
           /\ subtitles' = subtitles
           /\ pc' = "reading"
           /\ read_result' = "none"

\* a valid block after a blank line that split an entry before its time-range line
C10_AfterStrayBlank ==
    pc \in {"reading", "read_returned"} =>
        LET T == Trimmed(input)
        IN  \A k \in Pairs(T) :
                (k > 2 /\ T[k - 1] = <<>> /\ T[k - 2] # <<>> /\ ~Contains(T[k - 2], Arrow))
                    => /\ subtitles # <<>>
                       /\ \E i \in 1..Len(subtitles) : subtitles[i] = EntryAt(T, k)

\* C10: a blank line met during read_file empties the line buffer, leaves the entries
\* unchanged and raises no error; and a valid block that follows a blank line that
\* split an entry before its time-range line is appended with its own timestamps and
\* text.
C10_BlankLines == [][C10_BlankStep]_vars /\ []C10_AfterStrayBlank

\* an index line, a stray blank line, then the time range and the text
C10_Witness ==
    /\ pc = "read_returned"
    /\ Len(input) = 4
    /\ input[1] = L_index
    /\ input[2] = L_blank
    /\ 3 \in PairsInInput
    /\ subtitles = <<EntryAt(Trimmed(input), 3)>>

(***************************************************************************)
(* A client of the library: SRT::new, read_file, then move_start on entries *)
(***************************************************************************)
\* Duration::as_millis of the durations a client passes
D_2s      == BigOf(2000)
D_75min   == BigOf(4500000)
D_2pow32  == U32Mod
D_i64max  == I64Max
D_too_big == BigAdd(I64Max, BigOf(1))

Deltas == {D_2s, D_75min, D_2pow32, D_i64max, D_too_big}
EntryDeltas == {D_2s, D_too_big}
Directions == {"Forward", "Backward"}

InitLib ==
    /\ overflow_checks \in BOOLEAN
    /\ pc = "open"
    /\ NoDocument
    /\ Idle

\* move_start on the entry at position i
EntryMoveStart ==
    /\ pc = "read_returned"
    /\ n_calls < MaxEntryMoves
    /\ \E i \in 1..Len(subtitles), delta \in EntryDeltas, direction \in Directions :
         LET r == move_start(subtitles[i], delta, direction)
         IN  /\ subtitles' = [subtitles EXCEPT ![i] = r.self]
             /\ last' = [op |-> "move_start", status |-> r.status]
             /\ pc' = IF r.status = "panic" THEN "panicked" ELSE pc
    /\ n_calls' = n_calls + 1
    /\ UNCHANGED <<overflow_checks, argc, input, lines, read_result, io_failed, writevars,
                   log, ts, other, sub, origin>>

NextLib ==
    \/ ReadOpen
    \/ ReadOpenFail
    \/ ReadLine
    \/ ReadLineFail
    \/ ReadEof
    \/ EntryMoveStart

SpecLib == InitLib /\ [][NextLib]_vars

\* C1: every Subtitle in the entry sequence has a text that is non-empty, contains no
\* denylist phrase and is not made up of ASCII punctuation only.
C1_EntriesValid ==
    \A i \in 1..Len(subtitles) : TextOk(subtitles[i].text)

\* an entry that was read and then moved, from an input that also held a denylisted text
C1_Witness ==
    /\ last.op = "move_start"
    /\ last.status = "Ok"
    /\ Len(subtitles) = 1
    /\ \E i \in 1..Len(input) : input[i] = L_patch

(***************************************************************************)
(* A client of Timestamp                                                   *)
(***************************************************************************)
TsStrings == {
    <<48, 48, 58, 48, 48, 58, 48, 49, 44, 48, 48, 48>>,          \* "00:00:01,000"
    <<48, 58, 48, 58, 48, 44, 49, 48, 48, 48>>,                  \* "0:0:0,1000"
    <<48, 48, 58, 55, 53, 58, 48, 48, 44, 48, 48, 48>>,          \* "00:75:00,000"
    <<48, 49, 58, 48, 48, 58, 48, 48, 44, 48, 48, 48>>,          \* "01:00:00,000"
    <<49, 49, 57, 51, 58, 48, 50, 58, 52, 55, 44, 50, 57, 54>>,  \* "1193:02:47,296"
    <<48, 48, 58, 48, 48, 58, 48, 49>>,                          \* "00:00:01"
    <<48, 48, 58, 48, 48, 58, 48, 49, 44, 97, 98, 99>> }         \* "00:00:01,abc"

ParsedTimestamps == {from_string(s).val : s \in {x \in TsStrings : from_string(x).ok}}

\* the u64 values a client passes to from_millis
MillisInputs == {<<>>, BigOf(1000), BigOf(3723004), BigSub(U32Mod, BigOf(1)), U32Mod,
                 BigAdd(U32Mod, BigOf(1000))}

InitTs ==
    /\ overflow_checks \in BOOLEAN
    /\ pc = "lib"
    /\ NoDocument
    /\ ts \in ParsedTimestamps
    /\ other \in ParsedTimestamps
    /\ sub = [start_time |-> Timestamp(<<>>, <<>>, <<>>, <<>>),
              end_time |-> Timestamp(<<>>, <<>>, <<>>, <<>>), text |-> <<>>]
    /\ origin = [kind |-> "from_string"]
    /\ last = [op |-> "none"]
    /\ n_calls = 0

docvars == <<argc, input, lines, subtitles, read_result, io_failed, out, created,
             write_result, flush_failed, write_calls, log>>

TsFromMillis ==
    /\ pc = "lib"
    /\ n_calls < MaxCalls
    /\ \E m \in MillisInputs :
         /\ ts' = from_millis(m)
         /\ origin' = [kind |-> "from_millis", millis |-> m]
    /\ last' = [op |-> "from_millis"]
    /\ n_calls' = n_calls + 1
    /\ UNCHANGED <<overflow_checks, pc, docvars, other, sub>>

TsToMillis ==
    /\ pc = "lib"
    /\ LET r == to_millis(ts)
       IN  /\ last' = [op |-> "to_millis", panic |-> r.panic, val |-> r.val]
           /\ pc' = IF r.panic THEN "panicked" ELSE pc
    /\ UNCHANGED <<overflow_checks, docvars, ts, other, sub, origin, n_calls>>

TsMoveTs ==
    /\ pc = "lib"
    /\ n_calls < MaxCalls
    /\ \E delta \in Deltas, direction \in Directions :
         LET r == move_ts(ts, delta, direction)
         IN  /\ ts' = r.self
             /\ last' = [op |-> "move_ts", self |-> ts, delta |-> delta,
                         direction |-> direction, status |-> r.status]
             /\ pc' = IF r.status = "panic" THEN "panicked" ELSE pc
    /\ origin' = [kind |-> "move_ts"]
    /\ n_calls' = n_calls + 1
    /\ UNCHANGED <<overflow_checks, docvars, other, sub>>

\* ts.cmp(&other), with both to_millis values for reference
TsCmp ==
    /\ pc = "lib"
    /\ last' = [op |-> "cmp", result |-> cmp(ts, other),
                self_millis |-> to_millis(ts), other_millis |-> to_millis(other)]
    /\ UNCHANGED <<overflow_checks, pc, docvars, ts, other, sub, origin, n_calls>>

NextTs ==
    \/ TsFromMillis
    \/ TsToMillis
    \/ TsMoveTs
    \/ TsCmp

SpecTs == InitTs /\ [][NextTs]_vars

\* C5: for every timestamp t and every duration d whose millisecond magnitude exceeds
\* the millisecond value of t, move_ts(d, Backward) returns Ok and leaves t equal to
\* from_millis(0), rendered "00:00:00,000"; it never returns an error.
C5_BackwardClamps ==
    (/\ last.op = "move_ts"
     /\ last.direction = "Backward"
     /\ BigLt(total_milliseconds(last.self), last.delta))
        => /\ last.status = "Ok"
           /\ ts = from_millis(<<>>)
           \* "00:00:00,000"
           /\ Timestamp_fmt(ts) = <<48, 48, 58, 48, 48, 58, 48, 48, 44, 48, 48, 48>>

\* 1193:02:47,296 moved back by i64::MAX ms in a build with overflow checks
C5_Witness ==
    /\ last.op = "move_ts"
    /\ last.direction = "Backward"
    /\ total_milliseconds(last.self) = U32Mod
    /\ last.delta = D_i64max
    /\ last.status = "panic"

\* C6: from_millis(m).to_millis() == m for every u64 m.
C6_MillisRoundTrip ==
    (last.op = "to_millis" /\ origin.kind = "from_millis")
        => (~last.panic /\ last.val = origin.millis)

\* from_millis(2^32).to_millis() in a build without overflow checks: 0
C6_Witness ==
    /\ origin = [kind |-> "from_millis", millis |-> U32Mod]
    /\ last.op = "to_millis"
    /\ ~last.panic
    /\ last.val = <<>>

\* C7: a.to_millis() < b.to_millis() exactly when a < b under Ord.
C7_OrderAgreesWithMillis ==
    last.op = "cmp"
        => /\ ~last.self_millis.panic
           /\ ~last.other_millis.panic
           /\ BigLt(last.self_millis.val, last.other_millis.val) <=> (last.result = "Less")

\* a = "1193:02:47,296" and b = "00:00:01,000" in a build without overflow checks:
\* a > b, and a.to_millis() = 0 < 1000 = b.to_millis()
C7_Witness ==
    /\ last.op = "cmp"
    /\ total_milliseconds(ts) = U32Mod
    /\ other = Timestamp(<<>>, <<>>, <<1>>, <<>>)
    /\ last.result = "Greater"
    /\ last.self_millis = [panic |-> FALSE, val |-> <<>>]
    /\ last.other_millis = [panic |-> FALSE, val |-> BigOf(1000)]

(***************************************************************************)
(* A client of Subtitle                                                    *)
(***************************************************************************)
\* "Hello, World!"
L_hello == <<72, 101, 108, 108, 111, 44, 32, 87, 111, 114, 108, 100, 33>>
\* "1193:02:47,000 --> 1200:00:00,000"
L_range_late == <<49, 49, 57, 51, 58, 48, 50, 58, 52, 55, 44, 48, 48, 48, 32, 45, 45, 62,
                  32, 49, 50, 48, 48, 58, 48, 48, 58, 48, 48, 44, 48, 48, 48>>
L_dots == <<46, 46, 46>>                                   \* "..."

SubBlocks == {
    <<L_range1, L_hello>>,
    <<L_index, L_range2, L_text, L_hello>>,
    <<L_range_late, L_text>>,
    <<L_range1, L_dots>>,
    <<L_index, L_range1>>,
    <<L_range1, L_patch>> }

InitSub ==
    /\ overflow_checks \in BOOLEAN
    /\ pc = "lib"
    /\ NoDocument
    /\ ts = Timestamp(<<>>, <<>>, <<>>, <<>>)
    /\ other = Timestamp(<<>>, <<>>, <<>>, <<>>)
    /\ sub \in {Subtitle_new(b).val : b \in {x \in SubBlocks : Subtitle_new(x).ok}}
    /\ origin = [kind |-> "new"]
    /\ last = [op |-> "none"]
    /\ n_calls = 0

SubMoveStart ==
    /\ pc = "lib"
    /\ n_calls < MaxCalls
    /\ \E delta \in Deltas, direction \in Directions :
         LET r == move_start(sub, delta, direction)
         IN  /\ sub' = r.self
             /\ last' = [op |-> "move_start", before |-> sub, delta |-> delta,
                         direction |-> direction, status |-> r.status]
             /\ pc' = IF r.status = "panic" THEN "panicked" ELSE pc
    /\ n_calls' = n_calls + 1
    /\ UNCHANGED <<overflow_checks, docvars, ts, other, origin>>

SubDuration ==
    /\ pc = "lib"
    /\ LET r == duration(sub)
       IN  /\ last' = [op |-> "duration", self |-> sub, panic |-> r.panic, val |-> r.val]
           /\ pc' = IF r.panic THEN "panicked" ELSE pc
    /\ UNCHANGED <<overflow_checks, docvars, ts, other, sub, origin, n_calls>>

NextSub ==
    \/ SubMoveStart
    \/ SubDuration

SpecSub == InitSub /\ [][NextSub]_vars

\* C9: move_start leaves the end timestamp and the text unchanged, whether it returns
\* Ok or an error; only the start timestamp can change.
C9_MoveStartFrame ==
    last.op = "move_start"
        => /\ sub.end_time = last.before.end_time
           /\ sub.text = last.before.text

\* a move that changed the start, and a move that returned an error
C9_Witness ==
    /\ last.op = "move_start"
    /\ last.status = "Ok"
    /\ sub.start_time # last.before.start_time

C9_WitnessErr ==
    /\ last.op = "move_start"
    /\ last.status = "Err"

\* C12: for every Subtitle that Subtitle::new constructs, and after any sequence of
\* move_start calls on it, duration() returns a non-negative duration equal to
\* end.to_millis() minus start.to_millis().
C12_DurationIsDifference ==
    last.op = "duration"
        => LET start_time == to_millis(last.self.start_time)
               end_time   == to_millis(last.self.end_time)
           IN  /\ ~last.panic
               /\ BigLe(start_time.val, end_time.val)
               /\ last.val = BigSub(end_time.val, start_time.val)

\* the Subtitle built from "0:75:0,5 --> 0:0:8,0" and " Hi", whose start lies after its
\* end: duration() panics in a build with overflow checks
C12_Witness ==
    /\ last.op = "duration"
    /\ n_calls = 0
    /\ last.self.start_time = Timestamp(<<>>, <<75>>, <<>>, <<5>>)
    /\ last.self.end_time = Timestamp(<<>>, <<>>, <<8>>, <<>>)
    /\ overflow_checks
    /\ last.panic

=============================================================================
